---- MODULE Spec2Model ----
(***************************************************************************)
(* Model of bleve's search/query front end (package query, query.go):      *)
(*   ParseQuery          - shape-based decoding of an untagged JSON object *)
(*   ParsePreSearchData  - decoding of the pre-search sidecar object       *)
(*   expandQuery         - in-place expansion of query string queries      *)
(* Source line numbers refer to src/unnamed/part_000.                      *)
(***************************************************************************)
EXTENDS Integers, Sequences, FiniteSets, TLC

VARIABLES
    api,      \* which entry point this behaviour exercises
    pc,       \* "ready" before the call, "done" after it returned
    input,    \* ParseQuery: the input bytes, abstracted (see IsParseInput)
    pq,       \* ParseQuery: the returned pair (Query, error)
    psInput,  \* ParsePreSearchData: the input bytes, abstracted
    psd,      \* ParsePreSearchData: the returned pair (map, error)
    heap,     \* expandQuery: the query nodes allocated so far; a *Query is
              \* an index into heap, 0 the nil Query
    arg,      \* expandQuery: the query the caller passes to the next call
    heap0,    \* expandQuery: the heap before the first call
    arg0,     \* expandQuery: the query passed to the first call
    pre,      \* expandQuery: the heap before the latest call
    argPre,   \* expandQuery: the query passed to the latest call
    res,      \* expandQuery: what the latest call returned, and the texts
              \* it handed to parseQuerySyntax, in order
    calls     \* expandQuery: number of calls made

parseVars == <<input, pq>>
preVars == <<psInput, psd>>
expVars == <<heap, arg, heap0, arg0, pre, argPre, res, calls>>
vars == <<api, pc, parseVars, preVars, expVars>>

(***************************************************************************)
(* Bounds of the model.                                                    *)
(***************************************************************************)
\* largest number of keys in a JSON object handed to ParseQuery
MaxKeys == 2
\* longest list of match candidates handed to ParsePreSearchData
MaxMatches == 2
\* largest number of nodes of a query tree handed to expandQuery
MaxNodes == 4
\* largest number of successive calls of expandQuery on one tree
MaxExpands == 2

(***************************************************************************)
(* JSON values as encoding/json stores them in a map[string]interface{}:   *)
(* null -> nil, number -> float64, string -> string, object -> map,        *)
(* array -> []interface{}, true/false -> bool.                             *)
(***************************************************************************)
JNull      == [type |-> "null",   num |-> 0, str |-> ""]
JNumber(n) == [type |-> "number", num |-> n, str |-> ""]
JString(s) == [type |-> "string", num |-> 0, str |-> s]
JObject    == [type |-> "object", num |-> 0, str |-> ""]
JArray     == [type |-> "array",  num |-> 0, str |-> ""]
JBool      == [type |-> "bool",   num |-> 0, str |-> ""]

JsonValues ==
    {JNull, JNumber(5), JNumber(10), JString("a"), JString("z"),
     JObject, JArray, JBool}

\* the keys ParseQuery looks up, in the order of their first lookup, and one
\* key ("field") it never looks up
Keys ==
    {"fuzziness", "match", "match_phrase", "terms", "term", "must", "should",
     "must_not", "conjuncts", "disjuncts", "query", "min", "max", "start",
     "end", "prefix", "regexp", "wildcard", "match_all", "match_none", "ids",
     "bool", "top_left", "bottom_right", "distance", "polygon_points",
     "geometry", "cidr", "field"}

\* the query types whose decode a key of the input leads ParseQuery to
KeyVariants(k) ==
    CASE k = "fuzziness"      -> {"Fuzzy"}
      [] k = "match"          -> {"Match"}
      [] k = "match_phrase"   -> {"MatchPhrase"}
      [] k = "terms"          -> {"Phrase", "MultiPhrase"}
      [] k = "term"           -> {"Term"}
      [] k \in {"must", "should", "must_not"} -> {"Boolean"}
      [] k = "conjuncts"      -> {"Conjunction"}
      [] k = "disjuncts"      -> {"Disjunction"}
      [] k = "query"          -> {"QueryString"}
      [] k \in {"min", "max"} -> {"NumericRange", "TermRange"}
      [] k \in {"start", "end"} -> {"DateRangeString"}
      [] k = "prefix"         -> {"Prefix"}
      [] k = "regexp"         -> {"Regexp"}
      [] k = "wildcard"       -> {"Wildcard"}
      [] k = "match_all"      -> {"MatchAll"}
      [] k = "match_none"     -> {"MatchNone"}
      [] k = "ids"            -> {"DocID"}
      [] k = "bool"           -> {"BoolField"}
      [] k \in {"top_left", "bottom_right"} -> {"GeoBoundingBox"}
      [] k = "distance"       -> {"GeoDistance"}
      [] k = "polygon_points" -> {"GeoBoundingPolygon"}
      [] k = "geometry"       -> {"GeoShape"}
      [] k = "cidr"           -> {"IPRange"}
      [] OTHER                -> {}

(***************************************************************************)
(* The (Query, error) pair ParseQuery returns.                             *)
(***************************************************************************)
NoField    == [set |-> FALSE, num |-> 0, str |-> ""]
NumField(n) == [set |-> TRUE, num |-> n, str |-> ""]
StrField(s) == [set |-> TRUE, num |-> 0, str |-> s]

NilQuery == [variant |-> "nil", Min |-> NoField, Max |-> NoField]

NoErr        == [kind |-> "nil", variant |-> ""]
SyntaxErr    == [kind |-> "syntax", variant |-> ""]
DecodeErr(v) == [kind |-> "decode", variant |-> v]
UnknownErr   == [kind |-> "unknown query type", variant |-> ""]

NotCalled == [node |-> NilQuery, err |-> NoErr]

(***************************************************************************)
(* The input of ParseQuery.  The bytes are abstracted to                   *)
(*   syntaxOK : whether they unmarshal into a map[string]interface{}       *)
(*   tmp      : that map (key -> JSON value)                               *)
(*   decodeOK : for each query type the keys lead to, whether              *)
(*              util.UnmarshalJSON(input, &rv) into that type succeeds.    *)
(* The UnmarshalJSON methods and struct tags of the query types live in    *)
(* other files of the package; their outcome is an input of the model.     *)
(***************************************************************************)
RECURSIVE KeySets(_)
KeySets(n) ==
    IF n = 0 THEN {{}}
    ELSE LET smaller == KeySets(n - 1)
         IN  smaller \cup {s \cup {k} : s \in smaller, k \in Keys}

\* values enumerated for a key: every JSON type for the two keys whose value
\* ParseQuery inspects, null and two others for the field name the range
\* types decode, null and an object for the keys only tested for presence
ValuesOf(k) ==
    IF k \in {"min", "max"} THEN JsonValues
    ELSE IF k = "field" THEN {JNull, JString("a"), JObject}
    ELSE {JNull, JObject}

\* the JSON objects with the keys S
ObjectsOver(S) ==
    {f \in [S -> JsonValues] : \A k \in S : f[k] \in ValuesOf(k)}

has(tmp, k) == k \in DOMAIN tmp

\* tmp[k].(float64): the type assertion of lines 196-197
isFloat64(tmp, k) == has(tmp, k) /\ tmp[k].type = "number"

\* tmp[k].(string): the type assertion of lines 206-207
isString(tmp, k) == has(tmp, k) /\ tmp[k].type = "string"

\* NumericRangeQuery.Min/Max are *float64, TermRangeQuery.Min/Max are string
\* and the field name of both is a string: a present, non-null value of
\* another JSON type fails the decode
TypeMismatch(v, tmp) ==
    \/ \E k \in {"min", "max"} \cap DOMAIN tmp :
          \/ v = "NumericRange" /\ tmp[k].type \notin {"null", "number"}
          \/ v = "TermRange" /\ tmp[k].type \notin {"null", "string"}
    \/ /\ v \in {"NumericRange", "TermRange"}
       /\ has(tmp, "field")
       /\ tmp["field"].type \notin {"null", "string"}

OracleDomain(tmp) == UNION {KeyVariants(k) : k \in DOMAIN tmp}

\* the decode outcomes an object admits: the two range types are plain
\* structs, whose decode fails exactly on a type mismatch
Oracles(tmp) ==
    {o \in [OracleDomain(tmp) -> BOOLEAN] :
        \A v \in DOMAIN o \cap {"NumericRange", "TermRange"} :
            o[v] = ~TypeMismatch(v, tmp)}

\* input: malformed bytes, or an object of at most MaxKeys keys
IsParseInput(in) ==
    \/ in = [syntaxOK |-> FALSE, tmp |-> <<>>, decodeOK |-> <<>>]
    \/ \E S \in KeySets(MaxKeys) : \E t \in ObjectsOver(S) : \E d \in Oracles(t) :
           in = [syntaxOK |-> TRUE, tmp |-> t, decodeOK |-> d]

\* the Min or Max field of a decoded range query
RangeField(tmp, k) ==
    IF ~has(tmp, k) THEN NoField
    ELSE IF tmp[k].type = "number" THEN NumField(tmp[k].num)
    ELSE IF tmp[k].type = "string" THEN StrField(tmp[k].str)
    ELSE NoField

\* the value a successful util.UnmarshalJSON(input, &rv) leaves in rv
Decoded(v, tmp) ==
    IF v \in {"NumericRange", "TermRange"}
    THEN [variant |-> v, Min |-> RangeField(tmp, "min"),
          Max |-> RangeField(tmp, "max")]
    ELSE [variant |-> v, Min |-> NoField, Max |-> NoField]

(***************************************************************************)
(* ParseQuery, lines 100-339.                                              *)
(***************************************************************************)
\* Unmarshal with the error path returning the half-filled value as well
UnmarshalKeepsNode(in, v) ==
    IF in.decodeOK[v]
    THEN [node |-> Decoded(v, in.tmp), err |-> NoErr]
    ELSE [node |-> Decoded(v, in.tmp), err |-> DecodeErr(v)]

\* var rv T; err := util.UnmarshalJSON(input, &rv);
\* if err != nil { return nil, err }; return &rv, nil
Unmarshal(in, v) ==
    IF in.decodeOK[v]
    THEN [node |-> Decoded(v, in.tmp), err |-> NoErr]
    ELSE [node |-> NilQuery, err |-> DecodeErr(v)]

\* UnmarshalTerms keeping the first decode's error instead of the second's
UnmarshalTermsFirstErr(in) ==
    IF ~in.decodeOK["Phrase"]
    THEN IF ~in.decodeOK["MultiPhrase"]
         THEN [node |-> NilQuery, err |-> DecodeErr("Phrase")]
         ELSE [node |-> Decoded("MultiPhrase", in.tmp), err |-> NoErr]
    ELSE [node |-> Decoded("Phrase", in.tmp), err |-> NoErr]

\* lines 134-147: PhraseQuery first, MultiPhraseQuery when that fails
UnmarshalTerms(in) ==
    IF ~in.decodeOK["Phrase"]
    THEN IF ~in.decodeOK["MultiPhrase"]
         THEN [node |-> NilQuery, err |-> DecodeErr("MultiPhrase")]
         ELSE [node |-> Decoded("MultiPhrase", in.tmp), err |-> NoErr]
    ELSE [node |-> Decoded("Phrase", in.tmp), err |-> NoErr]

\* isFuzzy without the three exclusions
isFuzzyAlone(tmp) == has(tmp, "fuzziness")

\* lines 106-110
isFuzzy(tmp) ==
    has(tmp, "fuzziness") /\ ~has(tmp, "match") /\ ~has(tmp, "match_phrase")
        /\ ~has(tmp, "terms")

\* isNumericRange with && in place of ||
isNumericRangeBoth(tmp) == isFloat64(tmp, "min") /\ isFloat64(tmp, "max")

\* lines 196-198
isNumericRange(tmp) == isFloat64(tmp, "min") \/ isFloat64(tmp, "max")

\* lines 206-208
isTermRange(tmp) == isString(tmp, "min") \/ isString(tmp, "max")

\* lines 289-291
isGeoBoundingBox(tmp) == has(tmp, "top_left") /\ has(tmp, "bottom_right")

ParseQuery(in) ==
    LET tmp == in.tmp IN
    IF ~in.syntaxOK THEN [node |-> NilQuery, err |-> SyntaxErr]
    ELSE IF isFuzzy(tmp) THEN Unmarshal(in, "Fuzzy")
    ELSE IF has(tmp, "match") THEN Unmarshal(in, "Match")
    ELSE IF has(tmp, "match_phrase") THEN Unmarshal(in, "MatchPhrase")
    ELSE IF has(tmp, "terms") THEN UnmarshalTerms(in)
    ELSE IF has(tmp, "term") THEN Unmarshal(in, "Term")
    ELSE IF has(tmp, "must") \/ has(tmp, "should") \/ has(tmp, "must_not")
         THEN Unmarshal(in, "Boolean")
    ELSE IF has(tmp, "conjuncts") THEN Unmarshal(in, "Conjunction")
    ELSE IF has(tmp, "disjuncts") THEN Unmarshal(in, "Disjunction")
    ELSE IF has(tmp, "query") THEN Unmarshal(in, "QueryString")
    ELSE IF isNumericRange(tmp) THEN Unmarshal(in, "NumericRange")
    ELSE IF isTermRange(tmp) THEN Unmarshal(in, "TermRange")
    ELSE IF has(tmp, "start") \/ has(tmp, "end")
         THEN Unmarshal(in, "DateRangeString")
    ELSE IF has(tmp, "prefix") THEN Unmarshal(in, "Prefix")
    ELSE IF has(tmp, "regexp") THEN Unmarshal(in, "Regexp")
    ELSE IF has(tmp, "wildcard") THEN Unmarshal(in, "Wildcard")
    ELSE IF has(tmp, "match_all") THEN Unmarshal(in, "MatchAll")
    ELSE IF has(tmp, "match_none") THEN Unmarshal(in, "MatchNone")
    ELSE IF has(tmp, "ids") THEN Unmarshal(in, "DocID")
    ELSE IF has(tmp, "bool") THEN Unmarshal(in, "BoolField")
    ELSE IF isGeoBoundingBox(tmp) THEN Unmarshal(in, "GeoBoundingBox")
    ELSE IF has(tmp, "distance") THEN Unmarshal(in, "GeoDistance")
    ELSE IF has(tmp, "polygon_points") THEN Unmarshal(in, "GeoBoundingPolygon")
    ELSE IF has(tmp, "geometry") THEN Unmarshal(in, "GeoShape")
    ELSE IF has(tmp, "cidr") THEN Unmarshal(in, "IPRange")
    ELSE [node |-> NilQuery, err |-> UnknownErr]

(***************************************************************************)
(* ParsePreSearchData, lines 70-96.                                        *)
(*                                                                         *)
(* The input is abstracted to syntaxOK (whether the bytes unmarshal into a *)
(* map[string]json.RawMessage) and tmp (that map).  A json.RawMessage is   *)
(* abstracted to what its bytes hold: "null", a list of match candidates   *)
(* (given by their document ids), or something that does not decode into a *)
(* []*search.DocumentMatch.  encoding/json stores the four bytes `null` in *)
(* a RawMessage, so a RawMessage read from the input is never nil.         *)
(***************************************************************************)
\* search.KnnPreSearchDataKey
KnnPreSearchDataKey == "_knn_pre_search_data_key"

PreKeys == {KnnPreSearchDataKey, "unrelated", "size"}

DocIDs == {"d1", "d2"}

RECURSIVE SeqsUpTo(_, _)
SeqsUpTo(S, n) ==
    IF n = 0 THEN {<<>>}
    ELSE LET shorter == SeqsUpTo(S, n - 1)
         IN  shorter \cup {Append(q, x) : q \in shorter, x \in S}

RawNull     == [kind |-> "null", docs |-> <<>>]
RawList(ds) == [kind |-> "list", docs |-> ds]
RawNumber   == [kind |-> "number", docs |-> <<>>]
RawObject   == [kind |-> "object", docs |-> <<>>]
\* the nil json.RawMessage, which line 83 tests for
RawNil      == [kind |-> "nil", docs |-> <<>>]

RawValues ==
    {RawNull, RawNumber, RawObject} \cup
    {RawList(ds) : ds \in SeqsUpTo(DocIDs, MaxMatches)}

\* values enumerated for a key: every raw value for the reserved key, three
\* of them for the keys ParsePreSearchData skips
PreValuesOf(k) ==
    IF k = KnnPreSearchDataKey THEN RawValues
    ELSE {RawNull, RawNumber, RawList(<<"d1">>)}

\* a []*search.DocumentMatch: nil, or a slice of matches
NilMatches == [isNil |-> TRUE, docs |-> <<>>]
Matches(ds) == [isNil |-> FALSE, docs |-> ds]

\* a map[string]interface{}: nil, or an allocated map
NilMap == [isNil |-> TRUE, m |-> <<>>]
MakeMap == [isNil |-> FALSE, m |-> <<>>]

PreErr(k) == [kind |-> "decode", key |-> k]
PreSyntaxErr == [kind |-> "syntax", key |-> ""]
PreNoErr == [kind |-> "nil", key |-> ""]

PreNotCalled == [rv |-> NilMap, err |-> PreNoErr]

\* util.UnmarshalJSON(v, &value) with value a nil []*search.DocumentMatch
UnmarshalMatches(v) ==
    IF v.kind = "null" THEN [value |-> NilMatches, ok |-> TRUE]
    ELSE IF v.kind = "list" THEN [value |-> Matches(v.docs), ok |-> TRUE]
    ELSE [value |-> NilMatches, ok |-> FALSE]

\* rv[k] = value
MapStore(rv, k, value) ==
    [isNil |-> FALSE,
     m |-> [x \in DOMAIN rv.m \cup {k} |-> IF x = k THEN value ELSE rv.m[x]]]

\* lines 89-91: if rv == nil { rv = make(map[string]interface{}) }
LazyMake(rv) == IF rv.isNil THEN MakeMap ELSE rv

\* lines 79-95: the loop over tmp, visiting the keys in the order `order`
\* (Go ranges over a map in an unspecified order), from position i on
RECURSIVE RangeLoop(_, _, _, _)
RangeLoop(tmp, order, i, rv) ==
    IF i > Len(order) THEN [rv |-> rv, err |-> PreNoErr]
    ELSE LET k == order[i]
             v == tmp[k]
         IN  IF k = KnnPreSearchDataKey
             THEN LET dec == IF v # RawNil THEN UnmarshalMatches(v)
                             ELSE [value |-> NilMatches, ok |-> TRUE]
                  IN  IF ~dec.ok
                      THEN [rv |-> NilMap, err |-> PreErr(k)]
                      ELSE RangeLoop(tmp, order, i + 1,
                                     MapStore(LazyMake(rv), k, dec.value))
             ELSE RangeLoop(tmp, order, i + 1, rv)

\* ParsePreSearchData with line 71 allocating the map: rv := make(...)
ParsePreSearchDataEager(in, order) ==
    IF ~in.syntaxOK THEN [rv |-> NilMap, err |-> PreSyntaxErr]
    ELSE RangeLoop(in.tmp, order, 1, MakeMap)

\* line 71 leaves rv nil; lines 73-77 return the syntax error
ParsePreSearchData(in, order) ==
    IF ~in.syntaxOK THEN [rv |-> NilMap, err |-> PreSyntaxErr]
    ELSE RangeLoop(in.tmp, order, 1, NilMap)

(***************************************************************************)
(* Query trees.  A tree is written as a value: kind is the query type,     *)
(* Query the text of a QueryStringQuery, kids the children of a            *)
(* ConjunctionQuery or DisjunctionQuery (isNil: the slice is nil), or the  *)
(* Must, Should and MustNot of a BooleanQuery in that order (Absent for a  *)
(* nil Query).                                                             *)
(***************************************************************************)
Absent == [kind |-> "absent", Query |-> "", isNil |-> TRUE, kids |-> <<>>]
TLeaf(k) == [kind |-> k, Query |-> "", isNil |-> TRUE, kids |-> <<>>]
TQueryString(t) == [kind |-> "QueryString", Query |-> t, isNil |-> TRUE, kids |-> <<>>]
TConjunction(ks) == [kind |-> "Conjunction", Query |-> "", isNil |-> FALSE, kids |-> ks]
TDisjunction(ks) == [kind |-> "Disjunction", Query |-> "", isNil |-> FALSE, kids |-> ks]
TBoolean(m, sh, mn) ==
    [kind |-> "Boolean", Query |-> "", isNil |-> FALSE, kids |-> <<m, sh, mn>>]

ListKinds == {"Conjunction", "Disjunction"}

(***************************************************************************)
(* parseQuerySyntax, the grammar parser expandQuery calls (line 363).  It  *)
(* is given by its outcome on five texts: a parse error, or the tree it    *)
(* returns.  Two outcomes hold a query string query again: the code        *)
(* expands the parser's output, whatever it holds.                         *)
(***************************************************************************)
parseQuerySyntax(text) ==
    CASE text = "a" ->
           [ok |-> TRUE, msg |-> "",
            tree |-> TConjunction(<<TQueryString("b"), TLeaf("Match")>>)]
      [] text = "b" ->
           [ok |-> TRUE, msg |-> "",
            tree |-> TBoolean(Absent, TDisjunction(<<TLeaf("Match")>>), Absent)]
      [] text = "x" ->
           [ok |-> FALSE, msg |-> "syntax error near x", tree |-> Absent]
      [] text = "y" ->
           [ok |-> TRUE, msg |-> "",
            tree |-> TBoolean(TConjunction(<<TQueryString("b")>>),
                              TQueryString("z"), TLeaf("Match"))]
      [] text = "z" ->
           [ok |-> FALSE, msg |-> "syntax error near z", tree |-> Absent]

\* the texts of the query string queries of the trees handed to expandQuery
InputTexts == {"a", "x", "y"}

(***************************************************************************)
(* The heap.  A node has the fields of every query type the code reads:    *)
(* Query (QueryStringQuery), Conjuncts (ConjunctionQuery), Disjuncts       *)
(* (DisjunctionQuery), Must, Should, MustNot (BooleanQuery).  A []Query is *)
(* nil or a list of queries.                                               *)
(***************************************************************************)
NilSlice == [isNil |-> TRUE, elems |-> <<>>]
Slice(qs) == [isNil |-> FALSE, elems |-> qs]

Node(k) ==
    [kind |-> k, Query |-> "", Conjuncts |-> NilSlice, Disjuncts |-> NilSlice,
     Must |-> 0, Should |-> 0, MustNot |-> 0]

\* constructing the nodes of a tree: the children first, then the node
RECURSIVE Alloc(_, _), AllocSeq(_, _, _, _)
Alloc(h, t) ==
    IF t.kind = "absent" THEN [h |-> h, id |-> 0]
    ELSE LET c == AllocSeq(h, t.kids, 1, <<>>)
             list == IF t.isNil THEN NilSlice ELSE Slice(c.ids)
             n == CASE t.kind = "QueryString" ->
                         [Node(t.kind) EXCEPT !.Query = t.Query]
                    [] t.kind = "Conjunction" ->
                         [Node(t.kind) EXCEPT !.Conjuncts = list]
                    [] t.kind = "Disjunction" ->
                         [Node(t.kind) EXCEPT !.Disjuncts = list]
                    [] t.kind = "Boolean" ->
                         [Node(t.kind) EXCEPT !.Must = c.ids[1],
                                              !.Should = c.ids[2],
                                              !.MustNot = c.ids[3]]
                    [] OTHER -> Node(t.kind)
         IN  [h |-> Append(c.h, n), id |-> Len(c.h) + 1]

AllocSeq(h, ts, i, ids) ==
    IF i > Len(ts) THEN [h |-> h, ids |-> ids]
    ELSE LET a == Alloc(h, ts[i])
         IN  AllocSeq(a.h, ts, i + 1, Append(ids, a.id))

(***************************************************************************)
(* expandQuery, lines 344-402.  Each operator takes the heap h, its        *)
(* argument and the texts parsed so far, and returns the heap it leaves,   *)
(* its results and the texts parsed.                                       *)
(***************************************************************************)
NoExpandErr == [kind |-> "nil", text |-> "", msg |-> ""]

\* fmt.Errorf("could not parse '%s': %s", q.Query, err), line 365
CouldNotParse(text, msg) == [kind |-> "could not parse", text |-> text, msg |-> msg]

RECURSIVE expand(_, _, _)
RECURSIVE expandLoop(_, _, _, _, _)

\* expandLoop going on after a child failed, to return the last error
expandLoopKeepsGoing(h, queries, i, expanded, log) ==
    IF i > Len(queries.elems)
    THEN [h |-> h, slice |-> Slice(expanded), err |-> NoExpandErr, log |-> log]
    ELSE LET r == expand(h, queries.elems[i], log)
         IN  IF r.err # NoExpandErr
             THEN LET rest == expandLoop(r.h, queries, i + 1, expanded, r.log)
                  IN  [h |-> rest.h, slice |-> NilSlice,
                       err |-> IF rest.err # NoExpandErr THEN rest.err ELSE r.err,
                       log |-> rest.log]
             ELSE expandLoop(r.h, queries, i + 1, Append(expanded, r.rv), r.log)

\* lines 350-357: the loop over queries from position i on, expanded holding
\* the children appended so far
expandLoop(h, queries, i, expanded, log) ==
    IF i > Len(queries.elems)
    THEN [h |-> h, slice |-> Slice(expanded), err |-> NoExpandErr, log |-> log]
    ELSE LET r == expand(h, queries.elems[i], log)
         IN  IF r.err # NoExpandErr
             THEN [h |-> r.h, slice |-> NilSlice, err |-> r.err, log |-> r.log]
             ELSE expandLoop(r.h, queries, i + 1, Append(expanded, r.rv), r.log)

\* expandSlice appending to the list it was given: expanded := queries
expandSliceAppends(h, queries, log) ==
    expandLoop(h, queries, 1, queries.elems, log)

\* lines 348-358: expanded := []Query{}, then the loop
expandSlice(h, queries, log) == expandLoop(h, queries, 1, <<>>, log)

\* expandQueryString returning the parser's output as it is: return parsed, nil
expandQueryStringVerbatim(h, q, log) ==
    LET parsed == parseQuerySyntax(h[q].Query)
        log1 == Append(log, h[q].Query)
    IN  IF ~parsed.ok
        THEN [h |-> h, rv |-> 0,
              err |-> CouldNotParse(h[q].Query, parsed.msg), log |-> log1]
        ELSE LET a == Alloc(h, parsed.tree)
             IN  [h |-> a.h, rv |-> a.id, err |-> NoExpandErr, log |-> log1]

\* lines 362-367
expandQueryString(h, q, log) ==
    LET parsed == parseQuerySyntax(h[q].Query)
        log1 == Append(log, h[q].Query)
    IN  IF ~parsed.ok
        THEN [h |-> h, rv |-> 0,
              err |-> CouldNotParse(h[q].Query, parsed.msg), log |-> log1]
        ELSE LET a == Alloc(h, parsed.tree)
             IN  expand(a.h, a.id, log1)

\* lines 368-374
expandConjunction(h, q, log) ==
    LET r == expandSlice(h, h[q].Conjuncts, log)
    IN  IF r.err # NoExpandErr
        THEN [h |-> r.h, rv |-> 0, err |-> r.err, log |-> r.log]
        ELSE [h |-> [r.h EXCEPT ![q].Conjuncts = r.slice], rv |-> q,
              err |-> NoExpandErr, log |-> r.log]

\* lines 375-381
expandDisjunction(h, q, log) ==
    LET r == expandSlice(h, h[q].Disjuncts, log)
    IN  IF r.err # NoExpandErr
        THEN [h |-> r.h, rv |-> 0, err |-> r.err, log |-> r.log]
        ELSE [h |-> [r.h EXCEPT ![q].Disjuncts = r.slice], rv |-> q,
              err |-> NoExpandErr, log |-> r.log]

\* expandBoolean assigning a slot only once its expansion succeeded
expandBooleanChecksFirst(h, q, log) ==
    LET m == expand(h, h[q].Must, log)
    IN  IF m.err # NoExpandErr
        THEN [h |-> m.h, rv |-> 0, err |-> m.err, log |-> m.log]
        ELSE LET h1 == [m.h EXCEPT ![q].Must = m.rv]
                 sh == expand(h1, h1[q].Should, m.log)
             IN  IF sh.err # NoExpandErr
                 THEN [h |-> sh.h, rv |-> 0, err |-> sh.err, log |-> sh.log]
                 ELSE LET h2 == [sh.h EXCEPT ![q].Should = sh.rv]
                          mn == expand(h2, h2[q].MustNot, sh.log)
                      IN  IF mn.err # NoExpandErr
                          THEN [h |-> mn.h, rv |-> 0, err |-> mn.err, log |-> mn.log]
                          ELSE [h |-> [mn.h EXCEPT ![q].MustNot = mn.rv], rv |-> q,
                                err |-> NoExpandErr, log |-> mn.log]

\* lines 382-396: each slot is assigned what expand returns before the
\* error is looked at
expandBoolean(h, q, log) ==
    LET m == expand(h, h[q].Must, log)
        h1 == [m.h EXCEPT ![q].Must = m.rv]
    IN  IF m.err # NoExpandErr
        THEN [h |-> h1, rv |-> 0, err |-> m.err, log |-> m.log]
        ELSE LET sh == expand(h1, h1[q].Should, m.log)
                 h2 == [sh.h EXCEPT ![q].Should = sh.rv]
             IN  IF sh.err # NoExpandErr
                 THEN [h |-> h2, rv |-> 0, err |-> sh.err, log |-> sh.log]
                 ELSE LET mn == expand(h2, h2[q].MustNot, sh.log)
                          h3 == [mn.h EXCEPT ![q].MustNot = mn.rv]
                      IN  IF mn.err # NoExpandErr
                          THEN [h |-> h3, rv |-> 0, err |-> mn.err, log |-> mn.log]
                          ELSE [h |-> h3, rv |-> q, err |-> NoExpandErr,
                                log |-> mn.log]

\* expandDefault rejecting the nil Query
expandDefaultRejectsNil(h, q, log) ==
    IF q = 0
    THEN [h |-> h, rv |-> 0, err |-> CouldNotParse("", "nil query"), log |-> log]
    ELSE [h |-> h, rv |-> q, err |-> NoExpandErr, log |-> log]

\* lines 397-398: every other query, the nil Query included
expandDefault(h, q, log) == [h |-> h, rv |-> q, err |-> NoExpandErr, log |-> log]

\* lines 360-400: the type switch
expand(h, q, log) ==
    IF q = 0 THEN expandDefault(h, q, log)
    ELSE CASE h[q].kind = "QueryString" -> expandQueryString(h, q, log)
           [] h[q].kind = "Conjunction" -> expandConjunction(h, q, log)
           [] h[q].kind = "Disjunction" -> expandDisjunction(h, q, log)
           [] h[q].kind = "Boolean" -> expandBoolean(h, q, log)
           [] OTHER -> expandDefault(h, q, log)

\* line 401
expandQuery(h, query) == expand(h, query, <<>>)

(***************************************************************************)
(* The trees handed to expandQuery: every tree of at most MaxNodes nodes   *)
(* over one leaf type, the query string queries on InputTexts, the two     *)
(* list types (with a nil list, an empty list or a list of children) and   *)
(* the boolean type (with any of its slots absent).  A tree is built the   *)
(* way a caller builds it, the children before their parent: roots lists   *)
(* the queries built so far that have no parent yet, and a new list or     *)
(* boolean query takes the last of them as its children.                   *)
(***************************************************************************)
\* the last k elements of a sequence, and what precedes them
LastK(q, k) == SubSeq(q, Len(q) - k + 1, Len(q))
ButLastK(q, k) == SubSeq(q, 1, Len(q) - k)

\* the nodes one step may add: a leaf, a list query over a nil list or over
\* the last k roots (k = 0: the empty list), a boolean query whose present
\* slots are the last roots
NewNodes(roots) ==
    {[node |-> Node("Term"), used |-> 0]}
    \cup {[node |-> [Node("QueryString") EXCEPT !.Query = t], used |-> 0] :
             t \in InputTexts}
    \cup {[node |-> Node("Conjunction"), used |-> 0],
          [node |-> Node("Disjunction"), used |-> 0]}
    \cup {[node |-> [Node("Conjunction") EXCEPT !.Conjuncts = Slice(LastK(roots, k))],
           used |-> k] : k \in 0..Len(roots)}
    \cup {[node |-> [Node("Disjunction") EXCEPT !.Disjuncts = Slice(LastK(roots, k))],
           used |-> k] : k \in 0..Len(roots)}
    \cup {LET k == Cardinality(mask)
              part == LastK(roots, k)
              at(slot) == IF slot \in mask
                          THEN part[Cardinality({x \in mask : x <= slot})]
                          ELSE 0
          IN  [node |-> [Node("Boolean") EXCEPT !.Must = at(1), !.Should = at(2),
                                                !.MustNot = at(3)],
               used |-> k] :
          mask \in {m \in SUBSET {1, 2, 3} : Cardinality(m) <= Len(roots)}}

\* h and q are a heap of at most n more nodes than built so far and a query
\* in it (or the nil query and the empty heap)
RECURSIVE IsTree(_, _, _, _, _)
IsTree(h, q, built, roots, n) ==
    \/ /\ Len(roots) = 1
       /\ h = built
       /\ q = roots[1]
    \/ /\ n > 0
       /\ \E new \in NewNodes(roots) :
             IsTree(h, q, Append(built, new.node),
                    Append(ButLastK(roots, new.used), Len(built) + 1), n - 1)

IsInputTree(h, q) ==
    \/ h = <<>> /\ q = 0
    \/ IsTree(h, q, <<>>, <<>>, MaxNodes)

NoResult == [rv |-> 0, err |-> NoExpandErr, log |-> <<>>]

(***************************************************************************)
(* Specifications.  A behaviour exercises one entry point: it starts with  *)
(* an input drawn from the bounded inputs and makes the call.  The         *)
(* variables of the other entry points stay idle.                          *)
(***************************************************************************)
ParseIdle ==
    /\ input = [syntaxOK |-> FALSE, tmp |-> <<>>, decodeOK |-> <<>>]
    /\ pq = NotCalled

PreIdle ==
    /\ psInput = [syntaxOK |-> FALSE, tmp |-> <<>>]
    /\ psd = PreNotCalled

ExpandIdle ==
    /\ heap = <<>>
    /\ arg = 0
    /\ heap0 = <<>>
    /\ arg0 = 0
    /\ pre = <<>>
    /\ argPre = 0
    /\ res = NoResult
    /\ calls = 0

(***************************************************************************)
(* ParseQuery: one call on an input drawn from the bounded inputs.         *)
(***************************************************************************)
InitParse ==
    /\ api = "ParseQuery"
    /\ pc = "ready"
    /\ IsParseInput(input)
    /\ pq = NotCalled
    /\ PreIdle
    /\ ExpandIdle

CallParseQuery ==
    /\ api = "ParseQuery"
    /\ pc = "ready"
    /\ pq' = ParseQuery(input)
    /\ pc' = "done"
    /\ UNCHANGED <<api, input, preVars, expVars>>

NextParse == CallParseQuery

SpecParse == InitParse /\ [][NextParse]_vars

\* the orders in which a range over a map with the keys S may visit them
Orders(S) ==
    {o \in [1..Cardinality(S) -> S] : \A k \in S : \E i \in DOMAIN o : o[i] = k}

\* input: malformed bytes, or an object over a subset of PreKeys
IsPreInput(in) ==
    \/ in = [syntaxOK |-> FALSE, tmp |-> <<>>]
    \/ \E S \in SUBSET PreKeys :
          \E t \in {f \in [S -> RawValues] : \A k \in S : f[k] \in PreValuesOf(k)} :
             in = [syntaxOK |-> TRUE, tmp |-> t]

\* ParsePreSearchData: one call
InitPre ==
    /\ api = "ParsePreSearchData"
    /\ pc = "ready"
    /\ IsPreInput(psInput)
    /\ psd = PreNotCalled
    /\ ParseIdle
    /\ ExpandIdle

CallParsePreSearchData ==
    /\ api = "ParsePreSearchData"
    /\ pc = "ready"
    /\ \E order \in Orders(DOMAIN psInput.tmp) :
          psd' = ParsePreSearchData(psInput, order)
    /\ pc' = "done"
    /\ UNCHANGED <<api, psInput, parseVars, expVars>>

NextPre == CallParsePreSearchData

SpecPre == InitPre /\ [][NextPre]_vars

\* expandQuery: up to MaxExpands calls, each on what the call before it
\* returned; a failed call is the last
InitExpand ==
    /\ api = "expandQuery"
    /\ pc = "ready"
    /\ IsInputTree(heap, arg)
    /\ heap0 = heap
    /\ arg0 = arg
    /\ pre = heap
    /\ argPre = arg
    /\ res = NoResult
    /\ calls = 0
    /\ ParseIdle
    /\ PreIdle

CallExpandQuery ==
    /\ api = "expandQuery"
    /\ calls < MaxExpands
    /\ res.err = NoExpandErr
    /\ LET r == expandQuery(heap, arg)
       IN  /\ heap' = r.h
           /\ res' = [rv |-> r.rv, err |-> r.err, log |-> r.log]
           /\ arg' = IF r.err = NoExpandErr THEN r.rv ELSE arg
    /\ pre' = heap
    /\ argPre' = arg
    /\ calls' = calls + 1
    /\ pc' = "done"
    /\ UNCHANGED <<api, heap0, arg0, parseVars, preVars>>

NextExpand == CallExpandQuery

SpecExpand == InitExpand /\ [][NextExpand]_vars

\* a behaviour of any of the three entry points
Init == InitParse \/ InitPre \/ InitExpand

Next == CallParseQuery \/ CallParsePreSearchData \/ CallExpandQuery

Spec == Init /\ [][Next]_vars

(***************************************************************************)
(* Claims about ParseQuery.                                                *)
(***************************************************************************)
\* the cascade as documented: the variants in their documented order
DocumentedOrder ==
    <<"Fuzzy", "Match", "MatchPhrase", "Phrase", "Term", "Boolean",
      "Conjunction", "Disjunction", "QueryString", "NumericRange",
      "TermRange", "DateRangeString", "Prefix", "Regexp", "Wildcard",
      "MatchAll", "MatchNone", "DocID", "BoolField", "GeoBoundingBox",
      "GeoDistance", "GeoBoundingPolygon", "GeoShape", "IPRange">>

\* the documented predicate of each variant
DocumentedPredicate(v, t) ==
    LET p(k) == k \in DOMAIN t
        typ(k) == IF p(k) THEN t[k].type ELSE "absent"
    IN  CASE v = "Fuzzy" ->
                 p("fuzziness") /\ ~p("match") /\ ~p("match_phrase") /\ ~p("terms")
          [] v = "Match" -> p("match")
          [] v = "MatchPhrase" -> p("match_phrase")
          [] v = "Phrase" -> p("terms")
          [] v = "Term" -> p("term")
          [] v = "Boolean" -> p("must") \/ p("should") \/ p("must_not")
          [] v = "Conjunction" -> p("conjuncts")
          [] v = "Disjunction" -> p("disjuncts")
          [] v = "QueryString" -> p("query")
          [] v = "NumericRange" -> typ("min") = "number" \/ typ("max") = "number"
          [] v = "TermRange" -> typ("min") = "string" \/ typ("max") = "string"
          [] v = "DateRangeString" -> p("start") \/ p("end")
          [] v = "Prefix" -> p("prefix")
          [] v = "Regexp" -> p("regexp")
          [] v = "Wildcard" -> p("wildcard")
          [] v = "MatchAll" -> p("match_all")
          [] v = "MatchNone" -> p("match_none")
          [] v = "DocID" -> p("ids")
          [] v = "BoolField" -> p("bool")
          [] v = "GeoBoundingBox" -> p("top_left") /\ p("bottom_right")
          [] v = "GeoDistance" -> p("distance")
          [] v = "GeoBoundingPolygon" -> p("polygon_points")
          [] v = "GeoShape" -> p("geometry")
          [] v = "IPRange" -> p("cidr")

\* positions of the documented order whose predicate holds
Matching(t) ==
    {i \in 1..Len(DocumentedOrder) : DocumentedPredicate(DocumentedOrder[i], t)}

FirstDocumented(t) ==
    IF Matching(t) = {} THEN "none"
    ELSE DocumentedOrder[CHOOSE i \in Matching(t) : \A j \in Matching(t) : i <= j]

\* the branch a returned pair came from: the type of the node, or the type
\* whose decode produced the error (the multi-term phrase belongs to the
\* `terms` branch, documented as Phrase)
BranchOf(r) ==
    LET v == IF r.err = NoErr THEN r.node.variant
             ELSE IF r.err.kind = "decode" THEN r.err.variant
             ELSE "none"
    IN  IF v = "MultiPhrase" THEN "Phrase" ELSE v

ParsedObject == api = "ParseQuery" /\ pc = "done" /\ input.syntaxOK

\* C1: for every input object ParseQuery takes the branch of the first
\* predicate of the documented order that holds, and it returns the
\* unknown-query-type error and no node exactly when none holds.
C1_CascadeOrder ==
    ParsedObject =>
        /\ BranchOf(pq) = FirstDocumented(input.tmp)
        /\ (pq.err = UnknownErr) <=> (FirstDocumented(input.tmp) = "none")
        /\ (pq.err = UnknownErr) => (pq.node = NilQuery)
        /\ (pq.err = NoErr) <=> (pq.node # NilQuery)

\* C1 witness: keys of two variants, `match` and `fuzziness`, decode to Match.
C1_Witness ==
    /\ ParsedObject
    /\ DOMAIN input.tmp = {"match", "fuzziness"}
    /\ input.decodeOK["Fuzzy"]
    /\ pq.node.variant = "Match"

\* the predicates documented before the two range variants
BeforeRanges(t) ==
    \E i \in 1..9 : DocumentedPredicate(DocumentedOrder[i], t)

TypeAt(t, k) == IF k \in DOMAIN t THEN t[k].type ELSE "absent"

\* C2: when no earlier predicate matches, a number in `min` or `max` selects
\* NumericRange, otherwise a string in `min` or `max` selects TermRange,
\* otherwise neither range variant is selected; {"min": 5, "max": 10} gives
\* NumericRange with Min=5, Max=10 and {"min": "a", "max": "z"} gives
\* TermRange with Min="a", Max="z".
C2_RangeDispatch ==
    (ParsedObject /\ ~BeforeRanges(input.tmp)) =>
        LET t == input.tmp
            num == TypeAt(t, "min") = "number" \/ TypeAt(t, "max") = "number"
            str == TypeAt(t, "min") = "string" \/ TypeAt(t, "max") = "string"
        IN  /\ num => BranchOf(pq) = "NumericRange"
            /\ (~num /\ str) => BranchOf(pq) = "TermRange"
            /\ (~num /\ ~str) => BranchOf(pq) \notin {"NumericRange", "TermRange"}
            /\ (t = [k \in {"min", "max"} |->
                        IF k = "min" THEN JNumber(5) ELSE JNumber(10)])
               => pq = [node |-> [variant |-> "NumericRange",
                                  Min |-> NumField(5), Max |-> NumField(10)],
                        err |-> NoErr]
            /\ (t = [k \in {"min", "max"} |->
                        IF k = "min" THEN JString("a") ELSE JString("z")])
               => pq = [node |-> [variant |-> "TermRange",
                                  Min |-> StrField("a"), Max |-> StrField("z")],
                        err |-> NoErr]

\* C2 witness: a number beside a string is dispatched to NumericRange.
C2_Witness ==
    /\ ParsedObject
    /\ DOMAIN input.tmp = {"min", "max"}
    /\ input.tmp["min"].type = "string"
    /\ input.tmp["max"].type = "number"
    /\ pq.err = DecodeErr("NumericRange")

TermsBranch(t) ==
    /\ "terms" \in DOMAIN t
    /\ "match" \notin DOMAIN t
    /\ "match_phrase" \notin DOMAIN t

\* C3: in the `terms` branch the Phrase decode is tried first and its node
\* returned; only when it fails is the multi-term decode tried, whose node or
\* whose error is returned; no other variant is tried.
C3_TermsFallback ==
    (ParsedObject /\ TermsBranch(input.tmp)) =>
        LET phrase == input.decodeOK["Phrase"]
            multi == input.decodeOK["MultiPhrase"]
        IN  /\ phrase => pq = [node |-> Decoded("Phrase", input.tmp), err |-> NoErr]
            /\ (~phrase /\ multi) =>
                   pq = [node |-> Decoded("MultiPhrase", input.tmp), err |-> NoErr]
            /\ (~phrase /\ ~multi) =>
                   pq = [node |-> NilQuery, err |-> DecodeErr("MultiPhrase")]

\* C3 witness: both decodes fail beside a `term` key whose decode would
\* succeed, and the multi-term decode's error is what comes back.
C3_Witness ==
    /\ ParsedObject
    /\ DOMAIN input.tmp = {"terms", "term"}
    /\ ~input.decodeOK["Phrase"]
    /\ ~input.decodeOK["MultiPhrase"]
    /\ input.decodeOK["Term"]
    /\ pq.err = DecodeErr("MultiPhrase")

\* C4: in every branch but `terms`, a failed strict decode into the selected
\* variant is returned as that decode's error with no node, whatever later
\* predicates hold.
C4_DecodeErrorSurfaces ==
    ParsedObject =>
        LET f == FirstDocumented(input.tmp)
        IN  (f \notin {"none", "Phrase"} /\ ~input.decodeOK[f]) =>
                pq = [node |-> NilQuery, err |-> DecodeErr(f)]

\* C4 witness: the selected decode fails while a later variant's predicate
\* holds and its decode would succeed.
C4_Witness ==
    /\ ParsedObject
    /\ LET f == FirstDocumented(input.tmp)
       IN  /\ f \notin {"none", "Phrase"}
           /\ ~input.decodeOK[f]
           /\ \E i \in Matching(input.tmp) :
                 /\ DocumentedOrder[i] # f
                 /\ input.decodeOK[DocumentedOrder[i]]
           /\ pq.err = DecodeErr(f)
           /\ pq.node = NilQuery

(***************************************************************************)
(* Claims about ParsePreSearchData.                                        *)
(***************************************************************************)
PreParsedObject == api = "ParsePreSearchData" /\ pc = "done" /\ psInput.syntaxOK

\* the value of the reserved key, if present, is null or a list of matches
PayloadDecodes(t) ==
    KnnPreSearchDataKey \in DOMAIN t =>
        t[KnnPreSearchDataKey].kind \in {"null", "list"}

\* C5 as stated: for every well-formed input object ParsePreSearchData
\* returns no error and a mapping with exactly the input's keys that are the
\* reserved key, a null reserved value giving an empty payload, and the
\* mapping is an empty one, not a nil one, when the reserved key is absent.
C5_AsStated ==
    (PreParsedObject /\ PayloadDecodes(psInput.tmp)) =>
        /\ psd.err = PreNoErr
        /\ DOMAIN psd.rv.m = DOMAIN psInput.tmp \cap {KnnPreSearchDataKey}
        /\ ~psd.rv.isNil

\* C5 amended: for every well-formed input object whose reserved value, if
\* present, is null or a list of matches, ParsePreSearchData returns no
\* error and a mapping with exactly the input's keys that are the reserved
\* key; a null reserved value gives that key a nil payload, a list gives it
\* that list; without the reserved key the returned mapping is nil.
C5_PreSearchKeys ==
    (PreParsedObject /\ PayloadDecodes(psInput.tmp)) =>
        LET t == psInput.tmp
            k == KnnPreSearchDataKey
        IN  /\ psd.err = PreNoErr
            /\ DOMAIN psd.rv.m = DOMAIN t \cap {k}
            /\ psd.rv.isNil <=> (k \notin DOMAIN t)
            /\ (k \in DOMAIN t /\ t[k].kind = "null") => psd.rv.m[k] = NilMatches
            /\ (k \in DOMAIN t /\ t[k].kind = "list") =>
                   psd.rv.m[k] = Matches(t[k].docs)

\* C5 witness: only unrecognised keys, and the call returned a nil mapping
\* and no error.
C5_Witness ==
    /\ PreParsedObject
    /\ DOMAIN psInput.tmp = {"unrelated", "size"}
    /\ psd.err = PreNoErr
    /\ psd.rv = NilMap

(***************************************************************************)
(* Claims about expandQuery.  They are stated on trees read back from the  *)
(* heap, against a description of expansion that knows nothing of the      *)
(* heap: Replaced (what a tree expands to) and Walk (the order in which    *)
(* the query string queries are parsed).                                   *)
(***************************************************************************)
SlotIds(n) == <<n.Must, n.Should, n.MustNot>>

\* the children of a node: of a list query, or the slots of a boolean query
KidIds(n) ==
    CASE n.kind = "Conjunction" -> n.Conjuncts.elems
      [] n.kind = "Disjunction" -> n.Disjuncts.elems
      [] n.kind = "Boolean" -> SlotIds(n)
      [] OTHER -> <<>>

\* the tree below query q of heap h
RECURSIVE TreeOf(_, _)
TreeOf(h, q) ==
    IF q = 0 THEN Absent
    ELSE LET n == h[q]
         IN  [kind |-> n.kind,
              Query |-> n.Query,
              isNil |-> CASE n.kind = "Conjunction" -> n.Conjuncts.isNil
                          [] n.kind = "Disjunction" -> n.Disjuncts.isNil
                          [] n.kind = "Boolean" -> FALSE
                          [] OTHER -> TRUE,
              kids |-> [i \in 1..Len(KidIds(n)) |-> TreeOf(h, KidIds(n)[i])]]

\* the queries below q in h, q included
RECURSIVE Reach(_, _)
Reach(h, q) ==
    IF q = 0 THEN {}
    ELSE {q} \cup UNION {Reach(h, KidIds(h[q])[i]) : i \in 1..Len(KidIds(h[q]))}

RECURSIVE HasQueryString(_)
HasQueryString(t) ==
    \/ t.kind = "QueryString"
    \/ \E i \in 1..Len(t.kids) : HasQueryString(t.kids[i])

\* a tree with every QueryString leaf replaced by what the parser returns
\* for its text, replaced in turn
RECURSIVE Replaced(_)
Replaced(t) ==
    IF t.kind = "QueryString" THEN Replaced(parseQuerySyntax(t.Query).tree)
    ELSE [t EXCEPT !.kids = [i \in 1..Len(t.kids) |-> Replaced(t.kids[i])]]

\* a tree as lists of children: a nil list and an empty list are both the
\* list of no children
RECURSIVE AsLists(_)
AsLists(t) ==
    [t EXCEPT !.isNil = IF t.kind \in ListKinds THEN FALSE ELSE t.isNil,
              !.kids = [i \in 1..Len(t.kids) |-> AsLists(t.kids[i])]]

\* the parses a traversal makes, children left to right and slots in the
\* order must, should, must_not, up to the first parse that fails
RECURSIVE Walk(_, _)
RECURSIVE WalkKids(_, _, _)
Walk(t, st) ==
    IF ~st.ok THEN st
    ELSE IF t.kind = "QueryString"
    THEN LET p == parseQuerySyntax(t.Query)
             log1 == Append(st.log, t.Query)
         IN  IF p.ok THEN Walk(p.tree, [st EXCEPT !.log = log1])
             ELSE [ok |-> FALSE, log |-> log1, err |-> CouldNotParse(t.Query, p.msg)]
    ELSE WalkKids(t.kids, 1, st)

WalkKids(ts, i, st) ==
    IF i > Len(ts) THEN st ELSE WalkKids(ts, i + 1, Walk(ts[i], st))

WalkOf(t) == Walk(t, [ok |-> TRUE, log |-> <<>>, err |-> NoExpandErr])

Fails(t) == ~WalkOf(t).ok

\* query b of heap hq stands where query a of heap hp stood, and every
\* query of that tree but its QueryString leaves is still the same node
RECURSIVE SameNodes(_, _, _, _)
SameNodes(hp, a, hq, b) ==
    IF a = 0 THEN b = 0
    ELSE IF hp[a].kind = "QueryString" THEN TRUE
    ELSE /\ b = a
         /\ hq[b].kind = hp[a].kind
         /\ Len(KidIds(hq[b])) = Len(KidIds(hp[a]))
         /\ \A i \in 1..Len(KidIds(hp[a])) :
               SameNodes(hp, KidIds(hp[a])[i], hq, KidIds(hq[b])[i])

\* query b of hq is the expansion of query a of hp
IsExpansion(hp, a, hq, b) ==
    /\ ~HasQueryString(TreeOf(hq, b))
    /\ AsLists(TreeOf(hq, b)) = AsLists(Replaced(TreeOf(hp, a)))
    /\ SameNodes(hp, a, hq, b)

Expanded == api = "expandQuery" /\ calls >= 1

InputTree == TreeOf(pre, argPre)

\* C6: when expandQuery succeeds, no QueryString node is reachable from the
\* result, the result is the input tree with each QueryString leaf replaced
\* by the expanded output of the parser on its text (children in the same
\* order and number, subtrees in the same slots), and every other node of
\* the input is the same node in the output.
C6_ExpandReplacesInPlace ==
    (Expanded /\ res.err = NoExpandErr) => IsExpansion(pre, argPre, heap, res.rv)

\* C6 witness: a Boolean whose must slot is a Conjunction of a QueryString
\* leaf and a sibling was expanded.
C6_Witness ==
    /\ Expanded
    /\ res.err = NoExpandErr
    /\ argPre # 0
    /\ pre[argPre].kind = "Boolean"
    /\ pre[argPre].Must # 0
    /\ pre[pre[argPre].Must].kind = "Conjunction"
    /\ LET kids == pre[pre[argPre].Must].Conjuncts.elems
       IN  /\ Len(kids) = 2
           /\ pre[kids[1]].kind = "QueryString"
           /\ pre[kids[2]].kind = "Term"
           /\ heap[pre[argPre].Must].Conjuncts.elems[2] = kids[2]
           /\ heap[pre[argPre].Must].Conjuncts.elems[1] # kids[1]

\* C7: expanding a tree without QueryString nodes never fails and never
\* calls the parser, and expanding it a second time leaves the heap and the
\* returned query as the first expansion left them.
C7_IdempotentOnPureTrees ==
    (Expanded /\ ~HasQueryString(TreeOf(heap0, arg0))) =>
        /\ res.err = NoExpandErr
        /\ res.log = <<>>
        /\ res.rv = arg0
        /\ calls >= 2 => (heap = pre /\ res.rv = argPre)

\* C7 witness: a second expansion of a Conjunction that started with a nil
\* child list.
C7_Witness ==
    /\ Expanded
    /\ calls = 2
    /\ arg0 # 0
    /\ heap0[arg0].kind = "Conjunction"
    /\ heap0[arg0].Conjuncts.isNil
    /\ ~heap[arg0].Conjuncts.isNil
    /\ heap = pre

\* C8: expandQuery fails exactly when a parse fails in traversal order; it
\* then returns no query and the error naming the text and the parser's
\* message of the first failing parse, and it has called the parser on the
\* texts up to that one and on none after it.
C8_FirstFailure ==
    Expanded =>
        LET w == WalkOf(InputTree)
        IN  /\ (res.err # NoExpandErr) <=> ~w.ok
            /\ res.log = w.log
            /\ ~w.ok => (res.rv = 0 /\ res.err = w.err)

\* C8 witness: the must slot fails inside the parser's output for "y", and
\* the should slot, which would fail on "x", was not parsed.
C8_Witness ==
    /\ Expanded
    /\ argPre # 0
    /\ pre[argPre].kind = "Boolean"
    /\ pre[argPre].Must # 0
    /\ pre[pre[argPre].Must].Query = "y"
    /\ pre[argPre].Should # 0
    /\ pre[pre[argPre].Should].Query = "x"
    /\ res.err = CouldNotParse("z", "syntax error near z")
    /\ res.log = <<"y", "b", "z">>
    /\ res.rv = 0

LeafKinds == {"Term", "Match"}

\* C9: expandQuery returns a leaf query (or the nil query) as it is, without
\* error and without touching the heap; an absent slot of a Boolean stays
\* absent, and a Boolean with no slot at all expands to itself.
C9_LeavesAndAbsentSlots ==
    Expanded =>
        /\ (argPre = 0 \/ pre[argPre].kind \in LeafKinds) =>
              /\ res = [rv |-> argPre, err |-> NoExpandErr, log |-> <<>>]
              /\ heap = pre
        /\ \A q \in 1..Len(pre) :
              pre[q].kind = "Boolean" =>
                 \A i \in 1..3 : SlotIds(pre[q])[i] = 0 => SlotIds(heap[q])[i] = 0
        /\ (argPre # 0 /\ pre[argPre].kind = "Boolean"
               /\ SlotIds(pre[argPre]) = <<0, 0, 0>>) =>
              /\ res = [rv |-> argPre, err |-> NoExpandErr, log |-> <<>>]
              /\ heap = pre

\* C9 witness: a Boolean with only a should slot was expanded; its must and
\* must_not slots are still absent.
C9_Witness ==
    /\ Expanded
    /\ res.err = NoExpandErr
    /\ argPre # 0
    /\ pre[argPre].kind = "Boolean"
    /\ pre[argPre].Must = 0
    /\ pre[argPre].Should # 0
    /\ pre[argPre].MustNot = 0
    /\ pre[pre[argPre].Should].kind = "QueryString"
    /\ heap[argPre].Must = 0
    /\ heap[argPre].MustNot = 0
    /\ heap[argPre].Should # pre[argPre].Should

\* the first position of a list of queries whose tree fails to expand
FirstFailing(hp, ids) ==
    CHOOSE i \in 1..Len(ids) :
        /\ Fails(TreeOf(hp, ids[i]))
        /\ \A j \in 1..(i - 1) : ~Fails(TreeOf(hp, ids[j]))

\* every node below q is as it was
Untouched(hp, hq, q) == \A n \in Reach(hp, q) : hq[n] = hp[n]

\* what a failed expansion of query q leaves: hp the heap before, hq after
RECURSIVE FailureLeaves(_, _, _)
FailureLeaves(hp, hq, q) ==
    LET n == hp[q]
        ids == KidIds(n)
        f == FirstFailing(hp, ids)
    IN  CASE n.kind = "QueryString" -> hq[q] = hp[q]
          [] n.kind \in ListKinds ->
               /\ hq[q] = hp[q]
               /\ \A j \in 1..(f - 1) :
                     IF hp[ids[j]].kind = "QueryString"
                     THEN hq[ids[j]] = hp[ids[j]]
                     ELSE IsExpansion(hp, ids[j], hq, ids[j])
               /\ FailureLeaves(hp, hq, ids[f])
               /\ \A j \in (f + 1)..Len(ids) : Untouched(hp, hq, ids[j])
          [] n.kind = "Boolean" ->
               /\ \A j \in 1..(f - 1) :
                     IsExpansion(hp, ids[j], hq, SlotIds(hq[q])[j])
               /\ SlotIds(hq[q])[f] = 0
               /\ FailureLeaves(hp, hq, ids[f])
               /\ \A j \in (f + 1)..3 :
                     /\ SlotIds(hq[q])[j] = ids[j]
                     /\ Untouched(hp, hq, ids[j])

\* C10: after a failed expandQuery, a Boolean whose slot failed holds the
\* expanded subtrees in the slots before it, nil in the failing slot and
\* its untouched subtrees in the slots after it; a Conjunction or
\* Disjunction whose child failed has its child list as before the call,
\* the list queries and booleans among the children before the failing one
\* expanded in place and the children after it untouched.
C10_FailedExpandLeaves ==
    (Expanded /\ res.err # NoExpandErr) => FailureLeaves(pre, heap, argPre)

\* C10 witness: a Boolean with three slots failed in its should slot.
C10_Witness ==
    /\ Expanded
    /\ res.err # NoExpandErr
    /\ argPre # 0
    /\ pre[argPre].kind = "Boolean"
    /\ pre[argPre].Must # 0
    /\ pre[pre[argPre].Must].Query = "a"
    /\ pre[argPre].Should # 0
    /\ pre[argPre].MustNot # 0
    /\ heap[argPre].Must > Len(pre)
    /\ heap[argPre].Should = 0
    /\ heap[argPre].MustNot = pre[argPre].MustNot

====
